---- MODULE Spec2Model ----
(***************************************************************************)
(* Model of bob-router (src/index.js): Route / Router (add, match, exec,   *)
(* child) and the Vuex navigation module built by the default export       *)
(* (currentHandle, state, mutations, actions.navigate, router.post,        *)
(* router.update / install / start).                                       *)
(*                                                                         *)
(* Strings are sequences of atoms.  The atoms "/", "#", ":" and "*" are    *)
(* the characters the code and path-to-regexp treat specially; every other *)
(* atom stands for a run of ordinary characters.                           *)
(***************************************************************************)
EXTENDS Integers, Sequences, FiniteSets, TLC

----------------------------------------------------------------------------
(* Bounds *)

\* number of navigations / exec calls that may be accepted in one behaviour
MaxNavs == 3
\* number of location-change notifications that may be queued at once
MaxEvents == 1
\* number of direct Router.exec calls in one behaviour
MaxExecs == 2

----------------------------------------------------------------------------
(* Values *)

\* the value of a key the bag does not hold
Absent == <<"undefined">>

\* Route reference returned by Array.prototype.find when nothing matches
NoRoute == [router |-> 0, idx |-> 0]

NoError == "none"

\* property names that occur in bags of this model ("0", "1" are the
\* property names of the numeric keys 0 and 1)
BagKeys == {"id", "postId", "tab", "role", "note", "0", "1"}

EmptyMap == [k \in {} |-> Absent]

----------------------------------------------------------------------------
(* normalizePath: path.replace(/\/+$/, '') *)

RECURSIVE normalizePath(_)
normalizePath(path) ==
    IF Len(path) > 0 /\ path[Len(path)] = "/"
    THEN normalizePath(SubSeq(path, 1, Len(path) - 1))
    ELSE path

----------------------------------------------------------------------------
(* path-to-regexp as used by Route: pathToRegexp(path) gives a regexp with *)
(* a list of keys.  A template is a list of "/"-prefixed parts: a literal, *)
(* a named parameter ":name" (pattern [^\/]+?) or an asterisk "*" (pattern *)
(* .*, key name = running index of unnamed keys).  The regexp is anchored  *)
(* and, being non-strict, accepts one optional trailing "/".               *)

RECURSIVE ParseTokens(_, _, _)
ParseTokens(path, i, nkey) ==
    IF i > Len(path) THEN <<>>
    ELSE IF path[i] # "/" THEN
        <<[type |-> "lit", name |-> path[i], num |-> -1, prefix |-> FALSE]>>
            \o ParseTokens(path, i + 1, nkey)
    ELSE IF i = Len(path) THEN <<>>
    ELSE IF path[i + 1] = ":" THEN
        <<[type |-> "param", name |-> path[i + 2], num |-> -1, prefix |-> TRUE]>>
            \o ParseTokens(path, i + 3, nkey)
    ELSE IF path[i + 1] = "*" THEN
        <<[type |-> "star", name |-> "", num |-> nkey, prefix |-> TRUE]>>
            \o ParseTokens(path, i + 2, nkey + 1)
    ELSE
        <<[type |-> "lit", name |-> path[i + 1], num |-> -1, prefix |-> TRUE]>>
            \o ParseTokens(path, i + 2, nkey)

pathToRegexp(path) == ParseTokens(path, 1, 0)

\* re.keys: the tokens that capture
IsKey(tok) == tok.type # "lit"

ReKeys(re) == SelectSeq(re, IsKey)

\* key.name as a property name; typeof key.name === 'number' for asterisks
KeyIsNumber(key) == key.type = "star"

KeyName(key) == IF KeyIsNumber(key) THEN ToString(key.num) ELSE key.name

\* index just past the run of non-"/" atoms starting at j
RECURSIVE RunEnd(_, _)
RunEnd(path, j) ==
    IF j > Len(path) \/ path[j] = "/" THEN j ELSE RunEnd(path, j + 1)

\* re.exec(path): [ok, caps] with one capture per key, in key order
RECURSIVE ReMatch(_, _, _, _, _)
ReMatch(re, t, path, j, caps) ==
    IF t > Len(re) THEN
        IF j > Len(path) \/ (j = Len(path) /\ path[j] = "/")
        THEN [ok |-> TRUE, caps |-> caps]
        ELSE [ok |-> FALSE, caps |-> <<>>]
    ELSE
        LET tok == re[t]
            k   == IF tok.prefix THEN j + 1 ELSE j
            pre == (~tok.prefix) \/ (j <= Len(path) /\ path[j] = "/")
        IN  IF ~pre THEN [ok |-> FALSE, caps |-> <<>>]
            ELSE IF tok.type = "lit" THEN
                IF k <= Len(path) /\ path[k] = tok.name
                THEN ReMatch(re, t + 1, path, k + 1, caps)
                ELSE [ok |-> FALSE, caps |-> <<>>]
            ELSE IF tok.type = "param" THEN
                IF RunEnd(path, k) > k
                THEN ReMatch(re, t + 1, path, RunEnd(path, k),
                             Append(caps, SubSeq(path, k, RunEnd(path, k) - 1)))
                ELSE [ok |-> FALSE, caps |-> <<>>]
            ELSE \* asterisk: greedy (.*); templates here end with it
                IF t = Len(re)
                THEN [ok |-> TRUE,
                      caps |-> Append(caps, SubSeq(path, k, Len(path)))]
                ELSE [ok |-> FALSE, caps |-> <<>>]

ReExec(re, path) == ReMatch(re, 1, path, 1, <<>>)

----------------------------------------------------------------------------
(* Route and Router construction *)

\* steps
StringStep(action) ==
    [kind |-> "string", name |-> action, map |-> EmptyMap, child |-> 0]

\* a function step; map is the object the function returns (a promise for)
FunctionStep(name, ret) ==
    [kind |-> "function", name |-> name, map |-> ret, child |-> 0]

ObjectStep(map) ==
    [kind |-> "object", name |-> "", map |-> map, child |-> 0]

\* the function child() pushes on the synthetic route's steps
DelegateStep(child) ==
    [kind |-> "delegate", name |-> "", map |-> EmptyMap, child |-> child]

\* new Route(basePath, path, steps)
Route(basePath, path, steps) ==
    [path |-> path, re |-> pathToRegexp(path), steps |-> steps,
     url |-> basePath \o path]

\* new Router()
NewRouter ==
    [basePath |-> <<>>, baseRoute |-> NoRoute, parentRouter |-> 0,
     routes |-> <<>>]

\* router.add(path, ...steps) on router r of the router table rt
Add(rt, r, path, steps) ==
    [rt EXCEPT ![r].routes = Append(@, Route(rt[r].basePath, path, steps))]

\* router.child(path, ...steps) on router r; the child is router Len(rt)+1
Child(rt, r, path, steps) ==
    LET p     == normalizePath(path)
        c     == Len(rt) + 1
        added == Add(rt, r, p \o <<"/", "*">>, steps \o <<DelegateStep(c)>>)
        child == [basePath |-> normalizePath(rt[r].basePath) \o p,
                  baseRoute |-> [router |-> r, idx |-> Len(added[r].routes)],
                  parentRouter |-> r,
                  routes |-> <<>>]
    IN  Append(added, child)

----------------------------------------------------------------------------
(* The router table of this development, built with add and child as an    *)
(* application would: router 1 is the root handed to the default export.   *)

MapRole == [k \in {"role"} |-> <<"member">>]

MapItem == [k \in {"id", "tab"} |-> IF k = "id" THEN <<"zero">> ELSE <<"main">>]

MapThing == [k \in {"id"} |-> <<"zero">>]

MapNote == [k \in {"note"} |-> <<"late">>]

MapTab == [k \in {"role"} |-> <<"admin">>]

MapDraft == [k \in {"postId"} |-> <<"latest">>]

T1 == Add(<<NewRouter>>, 1, <<"/", "users", "/", ":", "id">>,
          <<FunctionStep("profile", MapRole)>>)

\* router 2
T2 == Child(T1, 1, <<"/", "users", "/", ":", "id", "/">>,
            <<StringStep("auth")>>)

T3 == Add(T2, 1, <<"/", "users", "/", ":", "id", "/", "*">>,
          <<ObjectStep(MapNote)>>)

T4 == Add(T3, 1, <<"/", "items", "/", ":", "id">>,
          <<ObjectStep(MapItem), StringStep("load"),
            FunctionStep("extra", MapRole)>>)

T5 == Add(T4, 1, <<"/", "things", "/", ":", "id">>,
          <<StringStep("load"), ObjectStep(MapThing)>>)

T6 == Add(T5, 2, <<"/", "posts", "/", ":", "postId">>,
          <<StringStep("loadPost")>>)

\* router 3
T7 == Child(T6, 2, <<"/", "admin">>, <<>>)

T8 == Add(T7, 3, <<"/", ":", "tab">>, <<ObjectStep(MapTab)>>)

T9 == Add(T8, 2, <<"/", "drafts", "/", ":", "postId">>,
          <<ObjectStep(MapDraft)>>)

Routers == T9

RootRouter == 1

RouteAt(ref) == Routers[ref.router].routes[ref.idx]

----------------------------------------------------------------------------
(* Params bag *)

EmptyBag ==
    [vals |-> [k \in BagKeys |-> Absent], length |-> -1, router |-> 0,
     route |-> NoRoute, error |-> NoError]

\* re.keys.forEach((key, i) => { params[key.name] = match[i + 1]; ... })
RECURSIVE BindKeys(_, _, _, _)
BindKeys(params, keys, caps, i) ==
    IF i > Len(keys) THEN params
    ELSE
        LET key == keys[i]
            p1  == [params EXCEPT !.vals[KeyName(key)] = caps[i]]
            p2  == IF KeyIsNumber(key)
                   THEN [p1 EXCEPT !.length = key.num + 1]
                   ELSE p1
        IN  BindKeys(p2, keys, caps, i + 1)

\* this.routes.find(...): index of the route the callback accepts, 0 if none
FindRouteLast(routes, path) ==
    LET hits == {i \in 1..Len(routes) : ReExec(routes[i].re, path).ok}
    IN  IF hits = {} THEN 0
        ELSE CHOOSE i \in hits : \A j \in hits : j <= i

FindRoute(routes, path) ==
    LET hits == {i \in 1..Len(routes) : ReExec(routes[i].re, path).ok}
    IN  IF hits = {} THEN 0
        ELSE CHOOSE i \in hits : \A j \in hits : i <= j

\* Router.match(path, params) on router r
MatchNoReset(r, path, params) ==
    LET routes == Routers[r].routes
        i      == FindRoute(routes, path)
        p0     == [params EXCEPT !.router = r]
    IN  IF i = 0 THEN [p0 EXCEPT !.route = NoRoute]
        ELSE
            LET re == routes[i].re
                m  == ReExec(re, path)
                p2 == BindKeys(p0, ReKeys(re), m.caps, 1)
            IN  [p2 EXCEPT !.route = [router |-> r, idx |-> i]]

MatchRouterOnHit(r, path, params) ==
    LET routes == Routers[r].routes
        i      == FindRoute(routes, path)
    IN  IF i = 0 THEN [params EXCEPT !.route = NoRoute]
        ELSE
            LET re == routes[i].re
                m  == ReExec(re, path)
                p1 == [params EXCEPT !.router = r, !.length = 0]
                p2 == BindKeys(p1, ReKeys(re), m.caps, 1)
            IN  [p2 EXCEPT !.route = [router |-> r, idx |-> i]]

Match(r, path, params) ==
    LET routes == Routers[r].routes
        i      == FindRoute(routes, path)
        p0     == [params EXCEPT !.router = r]
    IN  IF i = 0 THEN [p0 EXCEPT !.route = NoRoute]
        ELSE
            LET re == routes[i].re
                m  == ReExec(re, path)
                p1 == [p0 EXCEPT !.length = 0]
                p2 == BindKeys(p1, ReKeys(re), m.caps, 1)
            IN  [p2 EXCEPT !.route = [router |-> r, idx |-> i]]

\* Object.assign(params, step)
ObjectAssign(params, step) ==
    [params EXCEPT !.vals =
        [k \in BagKeys |-> IF k \in DOMAIN step THEN step[k] ELSE @[k]]]

----------------------------------------------------------------------------
(* Inputs *)

PUser == <<"/", "users", "/", "42">>

PNowhere == <<"/", "nowhere">>

\* paths navigate is dispatched with
NavPaths == {PUser, PNowhere}

\* values the user gives the location marker (links, the address bar)
UserHashes == {<<"#", "/", "nowhere">>}

\* paths Router.exec is called with directly
ExecPaths ==
    {PUser, PNowhere,
     <<"/", "users", "/", "42", "/">>,
     <<"/", "users", "/", "42", "/", "posts", "/", "7">>,
     <<"/", "users", "/", "42", "/", "admin", "/", "9">>,
     <<"/", "users", "/", "42", "/", "admin", "/", "9", "/", "x">>,
     <<"/", "users", "/", "42", "/", "zzz">>,
     <<"/", "users", "/", "42", "/", "posts", "/", "7", "/">>,
     <<"/", "users", "/", "42", "/", "drafts", "/", "7">>,
     <<"/", "items", "/", "5">>,
     <<"/", "things", "/", "5">>}

----------------------------------------------------------------------------
(* State *)

VARIABLES
    currentHandle,  \* let currentHandle: 0 is the initial { path: '' }
    state,          \* the module's state { progress, path, params }
    hash,           \* location.hash
    events,         \* hashchange notifications queued for the listener
    installed,      \* router.install has added the listener
    navs,           \* per handle: the navigation / exec call and its bag
    lastCall        \* the latest navigate call: its path and a call parity

vars == <<currentHandle, state, hash, events, installed, navs, lastCall>>

Handles == 1..MaxNavs

IdleNav ==
    [path |-> <<>>, pc |-> "idle", bag |-> EmptyBag, idx |-> 0,
     busy |-> FALSE, ran |-> <<>>, failedAt |-> 0, results |-> <<>>,
     hook |-> "", direct |-> FALSE, execs |-> <<>>]

\* const state = { progress: false, path: '', params: {} }
InitState == [progress |-> FALSE, path |-> <<>>, params |-> EmptyBag]

Init ==
    /\ currentHandle = 0
    /\ state = InitState
    /\ hash = <<>>
    /\ events = <<>>
    /\ installed = FALSE
    /\ navs = [h \in Handles |-> IdleNav]
    /\ lastCall = [path |-> <<>>, tick |-> FALSE]

\* currentHandle.path
HandlePath(h) == IF h = 0 THEN <<>> ELSE navs[h].path

Used == {h \in Handles : navs[h].pc # "idle"}

\* the object a new navigation / exec call gets
FreshHandle == Cardinality(Used) + 1

----------------------------------------------------------------------------
(* Router.exec *)

\* .catch((error) => { params.error = error; })
ExecCatch(params, error) == [params EXCEPT !.error = error]

\* .return(params): the promise of exec resolves with the bag; the array of
\* step results that mapSeries resolved with is dropped
ExecReturn(n) ==
    [n EXCEPT !.pc = IF n.direct THEN "resolved" ELSE "post",
              !.busy = FALSE]

\* the pipeline rejected with error
ExecFailPropagate(n, error) ==
    [n EXCEPT !.pc = "execRejected", !.busy = FALSE]

ExecFail(n, error) ==
    ExecReturn([n EXCEPT !.bag = ExecCatch(n.bag, error)])

\* this.match(path, params), then mapSeries over params.route.steps or
\* Promise.reject(Error('Not found'))
ExecEnter(n, r, path) ==
    LET params == Match(r, path, n.bag)
        n1     == [n EXCEPT !.bag = params, !.idx = 1,
                            !.execs = Append(@, [router |-> r, path |-> path])]
    IN  IF params.route = NoRoute THEN ExecFail(n1, "NotFound")
        ELSE IF Len(RouteAt(params.route).steps) = 0 THEN ExecReturn(n1)
        ELSE n1

\* mapSeries after a step fulfilled: the next step, or the end of the
\* list.  A delegation step is the last of its route, so the end of the
\* innermost list is the end of every enclosing one.
StepFulfilled(n, result) ==
    LET n1 == [n EXCEPT !.results = Append(@, result), !.busy = FALSE,
                        !.idx = @ + 1]
    IN  IF n1.idx > Len(RouteAt(n.bag.route).steps) THEN ExecReturn(n1)
        ELSE n1

\* mapSeries after a step threw or rejected
StepRejectedContinue(n) ==
    StepFulfilled([n EXCEPT !.failedAt = Len(n.ran),
                            !.bag = ExecCatch(n.bag, "StepError")], EmptyMap)

StepRejected(n) ==
    ExecFail([n EXCEPT !.failedAt = Len(n.ran)], "StepError")

\* the delegation step of child(): --params.length, '/' + params[restIdx],
\* delete params[restIdx], child.exec(store, path, params)
DelegatePostDecrement(n, child) ==
    LET restIdx == n.bag.length
        key     == ToString(restIdx)
        rest    == IF key \in BagKeys THEN n.bag.vals[key] ELSE Absent
        path    == <<"/">> \o rest
        pruned  == [n.bag EXCEPT !.length = restIdx - 1,
                                 !.vals = [k \in BagKeys |->
                                     IF k = key THEN Absent ELSE @[k]]]
    IN  ExecEnter([n EXCEPT !.bag = pruned, !.results = Append(@, EmptyMap)],
                  child, path)

Delegate(n, child) ==
    LET restIdx == n.bag.length - 1
        key     == ToString(restIdx)
        rest    == IF key \in BagKeys THEN n.bag.vals[key] ELSE Absent
        path    == <<"/">> \o rest
        pruned  == [n.bag EXCEPT !.length = restIdx,
                                 !.vals = [k \in BagKeys |->
                                     IF k = key THEN Absent ELSE @[k]]]
    IN  ExecEnter([n EXCEPT !.bag = pruned, !.results = Append(@, EmptyMap)],
                  child, path)

CurStep(n) == RouteAt(n.bag.route).steps[n.idx]

Started(n) == [n EXCEPT !.ran = Append(@, [route |-> n.bag.route, idx |-> n.idx])]

\* a pipeline goes on for as long as it has steps left: neither mapSeries
\* nor the mapper looks at currentHandle
RunningIfCurrent(h) ==
    /\ navs[h].pc = "exec"
    /\ navs[h].direct \/ currentHandle = h

Running(h) == navs[h].pc = "exec"

\* the mapper returned a promise: mapSeries waits for it before it calls
\* the mapper again
StepPendingConcurrent(n) ==
    IF n.idx < Len(RouteAt(n.bag.route).steps)
    THEN [n EXCEPT !.idx = @ + 1]
    ELSE [n EXCEPT !.busy = TRUE]

StepPending(n) == [n EXCEPT !.busy = TRUE]

\* the mapper of mapSeries is called for the next step
StepStart(h, o) ==
    /\ Running(h)
    /\ ~navs[h].busy
    /\ LET n    == Started(navs[h])
           step == CurStep(navs[h])
       IN  \/ /\ step.kind = "object"
              /\ o = "sync"
              /\ navs' = [navs EXCEPT ![h] =
                    StepFulfilled([n EXCEPT !.bag = ObjectAssign(n.bag, step.map)],
                                  EmptyMap)]
           \/ /\ step.kind = "delegate"
              /\ o = "sync"
              /\ navs' = [navs EXCEPT ![h] = Delegate(n, step.child)]
           \/ /\ step.kind \in {"string", "function"}
              /\ o = "throw"
              /\ navs' = [navs EXCEPT ![h] = StepRejected(n)]
           \/ /\ step.kind \in {"string", "function"}
              /\ o = "async"
              /\ navs' = [navs EXCEPT ![h] = StepPending(n)]
    /\ UNCHANGED <<currentHandle, state, hash, events, installed, lastCall>>

\* the promise a dispatched action or a function step returned settles
StepComplete(h, ok) ==
    /\ Running(h)
    /\ navs[h].busy
    /\ LET n    == navs[h]
           step == CurStep(n)
       IN  navs' = [navs EXCEPT ![h] =
                IF ok
                THEN StepFulfilled(n, IF step.kind = "function"
                                      THEN step.map ELSE EmptyMap)
                ELSE StepRejected(n)]
    /\ UNCHANGED <<currentHandle, state, hash, events, installed, lastCall>>

\* router.exec(store, path) called by the application, outside navigate
ExecCall(p) ==
    /\ FreshHandle \in Handles
    /\ FreshHandle <= MaxExecs
    /\ navs' = [navs EXCEPT ![FreshHandle] =
            ExecEnter([IdleNav EXCEPT !.path = p, !.pc = "exec",
                                      !.direct = TRUE], RootRouter, p)]
    /\ UNCHANGED <<currentHandle, state, hash, events, installed, lastCall>>

----------------------------------------------------------------------------
(* The location marker (window.location.hash) *)

\* the getter: '' for an empty fragment, else '#' + fragment
LocationHash(fragment) ==
    IF fragment = <<>> THEN <<>> ELSE <<"#">> \o fragment

\* location.hash = v: one leading '#' of v is dropped
SetLocationHash(v) ==
    LocationHash(IF v # <<>> /\ v[1] = "#" THEN Tail(v) ELSE v)

\* hash.replace(/^[#\/]+/, '')
RECURSIVE StripMarker(_)
StripMarker(h) ==
    IF h # <<>> /\ h[1] \in {"#", "/"} THEN StripMarker(Tail(h)) ELSE h

\* router.update: const path = '/' + location.hash.replace(/^[#\/]+/, '')
UpdatePath(h) == <<"/">> \o StripMarker(h)

\* the hashchange notification of a write that changed the marker, queued
\* for the listener router.install added
Notify(old, new, by) ==
    IF installed /\ old # new
    THEN Append(events, [by |-> by])
    ELSE events

----------------------------------------------------------------------------
(* The store module *)

\* mutations.navigating
navigating(st) == [st EXCEPT !.progress = TRUE]

\* mutations.navigated
navigatedInProgress(st, path, params) ==
    [st EXCEPT !.path = path, !.params = params]

navigated(st, path, params) ==
    [st EXCEPT !.progress = FALSE, !.path = path, !.params = params]

\* the guard of actions.navigate: currentHandle.path === path
IsRepeatCommitted(path) == state.path = path

IsRepeat(path) == HandlePath(currentHandle) = path

\* actions.navigate up to the call of router.exec, with the other
\* variables left to the caller
navigate(path) ==
    /\ lastCall' = [path |-> path, tick |-> ~lastCall.tick]
    /\ IF IsRepeat(path)
       THEN UNCHANGED <<currentHandle, state, navs>>
       ELSE /\ FreshHandle \in Handles
            /\ currentHandle' = FreshHandle
            /\ state' = navigating(state)
            /\ navs' = [navs EXCEPT ![FreshHandle] =
                    ExecEnter([IdleNav EXCEPT !.path = path, !.pc = "exec"],
                              RootRouter, path)]

\* dispatch('navigate', path) by the application
Dispatch(p) ==
    /\ navigate(p)
    /\ UNCHANGED <<hash, events, installed>>

\* router.start: install, then update once
Start ==
    /\ ~installed
    /\ installed' = TRUE
    /\ navigate(UpdatePath(hash))
    /\ UNCHANGED <<hash, events>>

\* the hashchange listener: router.update reads the marker as it is now
HashChange ==
    /\ events # <<>>
    /\ events' = Tail(events)
    /\ navigate(UpdatePath(hash))
    /\ UNCHANGED <<hash, installed>>

\* the user changes the fragment
LocationChange(v) ==
    /\ Len(events) < MaxEvents
    /\ hash' = SetLocationHash(v)
    /\ hash' # hash
    /\ events' = Notify(hash, hash', "user")
    /\ UNCHANGED <<currentHandle, state, installed, navs, lastCall>>

\* first .tap: router.post(params).catch(...).  o is what the hook does:
\* "none" returns nothing (the default hook), so .catch is read from
\* undefined and the handler throws; "throw" throws; "promise" returns a
\* promise.  A handler that throws rejects the chain, and the second .tap
\* is not called.
PostCall(h, o) ==
    /\ navs[h].pc = "post"
    /\ navs' = [navs EXCEPT ![h] =
            IF o = "promise"
            THEN [@ EXCEPT !.pc = "hook", !.hook = "pending"]
            ELSE [@ EXCEPT !.pc = "rejected", !.hook = o]]
    /\ UNCHANGED <<currentHandle, state, hash, events, installed, lastCall>>

\* if (currentHandle === handle)
IsCurrentByPath(h) == HandlePath(currentHandle) = navs[h].path

IsCurrent(h) == currentHandle = h

\* the hook's promise settles (a rejection is caught into params.error),
\* then the second .tap: the check, the marker write and the commit
HookSettle(h, ok) ==
    /\ navs[h].pc = "hook"
    /\ LET n      == navs[h]
           params == IF ok THEN n.bag ELSE [n.bag EXCEPT !.error = "HookError"]
           hk     == IF ok THEN "resolve" ELSE "reject"
       IN  IF IsCurrent(h)
           THEN /\ hash' = SetLocationHash(<<"#">> \o n.path)
                /\ events' = Notify(hash, hash', "commit")
                /\ Len(events') <= MaxEvents
                /\ state' = navigated(state, n.path, params)
                /\ navs' = [navs EXCEPT ![h] =
                        [n EXCEPT !.pc = "committed", !.bag = params,
                                  !.hook = hk]]
           ELSE /\ navs' = [navs EXCEPT ![h] =
                        [n EXCEPT !.pc = "discarded", !.bag = params,
                                  !.hook = hk]]
                /\ UNCHANGED <<state, hash, events>>
    /\ UNCHANGED <<currentHandle, installed, lastCall>>

----------------------------------------------------------------------------
(* Specifications *)

Next ==
    \/ \E p \in NavPaths : Dispatch(p)
    \/ Start
    \/ HashChange
    \/ \E v \in UserHashes : LocationChange(v)
    \/ \E h \in Handles, o \in {"sync", "throw", "async"} : StepStart(h, o)
    \/ \E h \in Handles, ok \in BOOLEAN : StepComplete(h, ok)
    \/ \E h \in Handles, o \in {"none", "throw", "promise"} : PostCall(h, o)
    \/ \E h \in Handles, ok \in BOOLEAN : HookSettle(h, ok)

Spec == Init /\ [][Next]_vars

\* Router.exec called directly on paths of every shape
NextExec ==
    \/ \E p \in ExecPaths : ExecCall(p)
    \/ \E h \in Handles, o \in {"sync", "throw", "async"} : StepStart(h, o)
    \/ \E h \in Handles, ok \in BOOLEAN : StepComplete(h, ok)

SpecExec == Init /\ [][NextExec]_vars

----------------------------------------------------------------------------
(* Properties of the navigation module (specification Spec) *)

Finished(n) == n.pc \in {"committed", "discarded", "rejected"}

\* C1: preemption safety.  A navigation whose handle is not the current
\* one when its pipeline and hook have finished changes neither the state
\* nor the location marker; state.path / state.params only change
\* together, to the path and bag of the navigation that is current at that
\* moment and commits in that step.
PreemptionSafety ==
    [][ /\ \A h \in Handles :
            (navs[h].pc = "hook" /\ navs'[h].pc # "hook" /\ currentHandle # h)
                => /\ state' = state
                   /\ hash' = hash
                   /\ navs'[h].pc = "discarded"
        /\ (state'.path # state.path \/ state'.params # state.params)
            => \E h \in Handles :
                   /\ currentHandle = h
                   /\ navs[h].pc = "hook"
                   /\ navs'[h].pc = "committed"
                   /\ state'.path = navs[h].path
                   /\ state'.params = navs'[h].bag
                   /\ hash' = <<"#">> \o navs[h].path
      ]_vars

\* A was superseded by B and dropped; B's commit stands
PreemptionWitness ==
    \E a, b \in Handles :
        /\ a < b
        /\ navs[a].pc = "discarded"
        /\ navs[b].pc = "committed"
        /\ navs[a].path # navs[b].path
        /\ state.path = navs[b].path
        /\ state.params = navs[b].bag
        /\ hash = <<"#">> \o navs[b].path

\* C2: duplicate-path guard.  A navigate call whose path is the path of
\* the current handle creates no handle, commits nothing and starts no
\* pipeline: apart from the record of the call nothing changes.
DuplicateGuard ==
    [][ (lastCall' # lastCall /\ lastCall'.path = HandlePath(currentHandle))
            => UNCHANGED <<currentHandle, state, navs, hash>> ]_vars

\* two calls were made, the second one with the path of the first, while
\* the first was still running its pipeline: one pipeline exists
DuplicateWitness ==
    /\ lastCall.tick = FALSE
    /\ Used = {1}
    /\ currentHandle = 1
    /\ navs[1].pc = "exec"
    /\ lastCall.path = navs[1].path

\* C3: re-entrancy guard.  The delivery of a notification that a commit's
\* own marker write caused never replaces the current handle and never
\* starts a pipeline.
ReentrancyGuard ==
    [][ (events # <<>> /\ events' = Tail(events) /\ Head(events).by = "commit")
            => (currentHandle' = currentHandle /\ navs' = navs) ]_vars

\* C4: hook tolerance.  Whatever router.post did, once it has run the
\* navigation has gone through the current-handle check (and was committed
\* or dropped there).
HookTolerance ==
    \A h \in Handles :
        navs[h].hook \in {"none", "throw", "resolve", "reject"}
            => navs[h].pc \in {"committed", "discarded"}

\* C5: commit on failure.  A navigation whose pipeline failed, whose hook
\* completed successfully and whose handle is still current is committed:
\* state holds its path and its bag, with error set (and route absent
\* when nothing matched).
CommitOnFailure ==
    \A h \in Handles :
        (/\ navs[h].bag.error # NoError
         /\ navs[h].hook \in {"none", "resolve"}
         /\ currentHandle = h)
            => /\ navs[h].pc = "committed"
               /\ state.path = navs[h].path
               /\ state.params = navs[h].bag
               /\ state.params.error # NoError
               /\ (navs[h].ran = <<>> => state.params.route = NoRoute)

----------------------------------------------------------------------------
(* Properties of Router.exec (specification SpecExec) *)

\* C6: exec never rejects.  No call of exec ends rejected; the bag it
\* resolves with has error set exactly when no route matched (at the root
\* or in a router delegated to) or a step failed, and error names which.
ExecNeverRejects ==
    \A h \in Handles :
        LET n == navs[h]
        IN  /\ n.pc # "execRejected"
            /\ n.pc = "resolved" =>
                  n.bag.error = (IF n.failedAt # 0 THEN "StepError"
                                  ELSE IF n.bag.route = NoRoute THEN "NotFound"
                                  ELSE NoError)

\* a step failed and exec resolved with the failure in the bag
ExecNeverRejectsWitness ==
    \E h \in Handles :
        /\ navs[h].pc = "resolved"
        /\ navs[h].failedAt # 0
        /\ navs[h].bag.error = "StepError"

\* C7: pipeline short-circuit.  A failed step is the last step of its
\* pipeline that was started, in its own route and in the routers the
\* route would have delegated to.
ShortCircuit ==
    \A h \in Handles :
        navs[h].failedAt # 0
            => /\ navs[h].failedAt = Len(navs[h].ran)
               /\ navs[h].pc # "exec"

\* a step with steps after it failed
ShortCircuitWitness ==
    \E h \in Handles :
        /\ navs[h].pc = "resolved"
        /\ navs[h].failedAt # 0
        /\ LET s == navs[h].ran[navs[h].failedAt]
           IN  s.idx < Len(RouteAt(s.route).steps)

Accepts(ref, path) == ReExec(RouteAt(ref).re, path).ok

\* C8: first-match precedence.  While the bag is the root router's, its
\* route is the earliest registered route of the root whose pattern
\* accepts the path, or absent when none accepts it.
FirstMatch ==
    \A h \in Handles :
        LET n  == navs[h]
            rs == {i \in 1..Len(Routers[RootRouter].routes) :
                      Accepts([router |-> RootRouter, idx |-> i], n.path)}
        IN  (n.pc # "idle" /\ n.bag.router = RootRouter)
                => IF rs = {} THEN n.bag.route = NoRoute
                   ELSE /\ n.bag.route.router = RootRouter
                        /\ n.bag.route.idx \in rs
                        /\ \A j \in rs : n.bag.route.idx <= j

\* the path is accepted by the synthetic route of child() and by the
\* route registered after it; the synthetic route was chosen
FirstMatchWitness ==
    \E h \in Handles :
        /\ navs[h].pc = "exec"
        /\ navs[h].bag.route = [router |-> RootRouter, idx |-> 2]
        /\ Accepts([router |-> RootRouter, idx |-> 3], navs[h].path)

\* named captures of the route's pattern on the path, as key -> value
CaptureOf(ref, path, k) ==
    LET keys == ReKeys(RouteAt(ref).re)
        caps == ReExec(RouteAt(ref).re, path).caps
        is   == {i \in 1..Len(keys) : KeyName(keys[i]) = k}
    IN  IF is = {} THEN Absent ELSE caps[CHOOSE i \in is : TRUE]

\* C9: default-merge precedence.  After a plain-mapping step of a root
\* route has run, every key of the mapping that is a named capture of the
\* route's pattern still holds the captured value.
MappingKeepsCapture ==
    \A h \in Handles :
        \A i \in 1..Len(navs[h].ran) :
            LET s    == navs[h].ran[i]
                step == RouteAt(s.route).steps[s.idx]
            IN  (s.route.router = RootRouter /\ step.kind = "object")
                    => \A k \in DOMAIN step.map :
                          CaptureOf(s.route, navs[h].path, k) # Absent
                              => navs[h].bag.vals[k] =
                                     CaptureOf(s.route, navs[h].path, k)

\* C10: function-step defaults.  When exec has resolved, every key of an
\* object that a function step returned is held by the bag.
FunctionDefaultsMerged ==
    \A h \in Handles :
        navs[h].pc = "resolved"
            => \A i \in 1..Len(navs[h].results) :
                  \A k \in DOMAIN navs[h].results[i] :
                      navs[h].bag.vals[k] # Absent

----------------------------------------------------------------------------
(* Delegation (specification SpecExec) *)

\* what is left of path after the prefix of the synthetic route that
\* delegates to router c: the prefix parts are "/"-prefixed single atoms,
\* the "/" before the rest is kept
AfterPrefix(c, path) ==
    LET re == RouteAt(Routers[c].baseRoute).re
    IN  SubSeq(path, 2 * (Len(re) - 1) + 1, Len(path))

\* C11: delegation hand-off.  Every exec call of a child router is made
\* with "/" + the rest capture, which is the parent's path after the
\* prefix, unchanged; and when the child has taken over the bag, the rest
\* key of the synthetic route is gone and length is one less than the
\* synthetic route's match left it (until a match in the child sets both).
DelegationHandOff ==
    \A h \in Handles :
        LET n == navs[h]
        IN  /\ \A i \in 2..Len(n.execs) :
                  /\ Routers[n.execs[i].router].parentRouter = n.execs[i - 1].router
                  /\ n.execs[i].path = AfterPrefix(n.execs[i].router, n.execs[i - 1].path)
                  /\ n.execs[i].path[1] = "/"
            /\ (Len(n.execs) >= 2 /\ n.bag.route = NoRoute)
                  => /\ n.bag.router = n.execs[Len(n.execs)].router
                     /\ n.bag.length = 0
                     /\ n.bag.vals["0"] = Absent

\* the path went through two synthetic routes down to router 3
DelegationWitness ==
    \E h \in Handles :
        /\ Len(navs[h].execs) = 3
        /\ navs[h].execs[3] = [router |-> 3, path |-> <<"/", "9">>]
        /\ navs[h].bag.route = [router |-> 3, idx |-> 1]

\* the route the exec call number i of pipeline n went through: the
\* synthetic route of the next level's router, and at the last level the
\* earliest route of the router that accepts the level's path
Accepting(n, i) ==
    {j \in 1..Len(Routers[n.execs[i].router].routes) :
        Accepts([router |-> n.execs[i].router, idx |-> j], n.execs[i].path)}

LevelRoute(n, i) ==
    IF i < Len(n.execs) THEN Routers[n.execs[i + 1].router].baseRoute
    ELSE [router |-> n.execs[i].router,
          idx    |-> CHOOSE j \in Accepting(n, i) :
                         \A j2 \in Accepting(n, i) : j <= j2]

NamedKeys(ref) ==
    {KeyName(ReKeys(RouteAt(ref).re)[i]) :
        i \in {i2 \in 1..Len(ReKeys(RouteAt(ref).re)) :
                  ~KeyIsNumber(ReKeys(RouteAt(ref).re)[i2])}}

\* the pipeline went through a child router, matched there and none of
\* its steps failed
ChainResolved(n) ==
    /\ n.pc = "resolved"
    /\ Len(n.execs) >= 2
    /\ Accepting(n, Len(n.execs)) # {}
    /\ n.failedAt = 0

\* C12: hierarchical resolution result.  When a path was matched through
\* a chain of child routers and every step succeeded, the resolved bag has
\* the innermost router and its matched route, every named capture of
\* every level with the value captured at that level, no rest-capture key
\* and no error.
HierarchicalResult ==
    \A h \in Handles :
        LET n == navs[h]
            L == Len(n.execs)
        IN  ChainResolved(n)
                => /\ n.bag.router = n.execs[L].router
                   /\ n.bag.route = LevelRoute(n, L)
                   /\ \A i \in 1..L :
                         \A k \in NamedKeys(LevelRoute(n, i)) :
                             n.bag.vals[k] =
                                 CaptureOf(LevelRoute(n, i), n.execs[i].path, k)
                   /\ n.bag.vals["0"] = Absent
                   /\ n.bag.vals["1"] = Absent
                   /\ n.bag.error = NoError

\* C13: not found at any level.  When the router of the last exec call of
\* a pipeline, the root or a child any number of levels down, has no route
\* accepting the path it was called with, the resolved bag has the
\* not-found error, no route, that router as its router, and no step of a
\* route of that router has run.
NotFoundAtLevel ==
    \A h \in Handles :
        LET n == navs[h]
            L == Len(n.execs)
        IN  (n.pc = "resolved" /\ Accepting(n, L) = {})
                => /\ n.bag.error = "NotFound"
                   /\ n.bag.route = NoRoute
                   /\ n.bag.router = n.execs[L].router
                   /\ \A i \in 1..Len(n.ran) :
                         n.ran[i].route.router # n.execs[L].router

\* not found two levels down: the steps of both synthetic routes ran,
\* router 3 found nothing
NotFoundWitness ==
    \E h \in Handles :
        /\ navs[h].pc = "resolved"
        /\ Len(navs[h].execs) = 3
        /\ Accepting(navs[h], 3) = {}
        /\ navs[h].bag.router = 3
        /\ Len(navs[h].ran) = 3

\* the numeric capture keys of a route's pattern
NumericKeys(ref) ==
    {ReKeys(RouteAt(ref).re)[i].num :
        i \in {i2 \in 1..Len(ReKeys(RouteAt(ref).re)) :
                  KeyIsNumber(ReKeys(RouteAt(ref).re)[i2])}}

\* C14: positional-capture count.  While the bag holds a matched route,
\* of the root or of a child that matched on the bag its parent handed
\* over, length is one more than the largest numeric capture key of the
\* route's pattern, and 0 when the pattern has none.
PositionalCount ==
    \A h \in Handles :
        LET n  == navs[h]
            ks == NumericKeys(n.bag.route)
        IN  (n.pc # "idle" /\ n.bag.route # NoRoute)
                => n.bag.length =
                       IF ks = {} THEN 0
                       ELSE 1 + CHOOSE k \in ks : \A k2 \in ks : k2 <= k

\* matches on a bag handed over by the parent: one of a pattern with a
\* numeric key, one of a pattern without
PositionalCountWitness ==
    /\ \E h \in Handles :
          /\ Len(navs[h].execs) = 2
          /\ navs[h].bag.route = [router |-> 2, idx |-> 2]
          /\ navs[h].bag.length = 1
    /\ \E h \in Handles :
          /\ Len(navs[h].execs) = 2
          /\ navs[h].bag.route = [router |-> 2, idx |-> 1]
          /\ navs[h].bag.length = 0

----------------------------------------------------------------------------
(* Ordering of navigations (specification Spec) *)

\* C15 as stated: commit order can differ from start order.  A navigation
\* A accepted before a navigation B of another path, whose pipeline and
\* hook finish after B's have finished, is the navigation that is
\* committed.
LateFinisherWins ==
    [][ \A a, b \in Handles :
            ( /\ a < b
              /\ navs[a].path # navs[b].path
              /\ Finished(navs[b])
              /\ navs[a].pc = "hook"
              /\ navs'[a].pc # "hook" )
                => navs'[a].pc = "committed"
      ]_vars

\* C15, amended: commit order never differs from start order.  A
\* navigation commits only while no navigation has been accepted after it;
\* once B is accepted, an earlier accepted A is never committed, whichever
\* of the two finishes last.
NoLateWinner ==
    [][ \A a \in Handles :
            (navs[a].pc # "committed" /\ navs'[a].pc = "committed")
                => \A b \in Handles : b > a => navs[b].pc = "idle"
      ]_vars

\* B, accepted after A, has committed while A's hook is still pending: A
\* finishes after B
LateFinisherWitness ==
    \E a, b \in Handles :
        /\ a < b
        /\ navs[a].path # navs[b].path
        /\ navs[a].pc = "hook"
        /\ navs[b].pc = "committed"
        /\ state.path = navs[b].path

----------------------------------------------------------------------------
(* Step sequencing (specification SpecExec) *)

\* C16: strict step sequencing.  In one pipeline a step is started only
\* when every step started before it has completed: the steps started are
\* the steps completed, plus the one in progress or the one that failed;
\* so at most one step of a pipeline is in progress.  Pipelines of
\* different calls are not ordered against each other.
StrictSequencing ==
    \A h \in Handles :
        LET n == navs[h]
        IN  /\ n.pc = "exec"
                => Len(n.ran) = Len(n.results) + (IF n.busy THEN 1 ELSE 0)
            /\ Len(n.ran) <= Len(n.results) + 1
            /\ \A i \in 2..Len(n.ran) :
                  n.ran[i].route = n.ran[i - 1].route
                      => n.ran[i].idx = n.ran[i - 1].idx + 1

\* two pipelines have a step in progress at once, one of them its second
StrictSequencingWitness ==
    \E a, b \in Handles :
        /\ a # b
        /\ navs[a].busy /\ navs[b].busy
        /\ Len(navs[a].ran) = 2
        /\ Len(navs[a].results) = 1

----------------------------------------------------------------------------
(* Progress and supersession (specification Spec) *)

\* C17: progress flag.  state.progress is true exactly while the current
\* handle is that of an accepted navigation that has not committed.  It
\* changes to true only in a step that accepts a navigation, to false only
\* in the step in which the current navigation commits, and a navigation
\* that is dropped leaves it alone.
ProgressFlag ==
    [][ /\ state'.progress =
               (currentHandle' # 0 /\ navs'[currentHandle'].pc # "committed")
        /\ (~state.progress /\ state'.progress)
               => /\ currentHandle' # currentHandle
                  /\ navs[currentHandle'].pc = "idle"
        /\ (state.progress /\ ~state'.progress)
               => /\ navs[currentHandle].pc = "hook"
                  /\ navs'[currentHandle].pc = "committed"
        /\ \A h \in Handles :
               (navs[h].pc # "discarded" /\ navs'[h].pc = "discarded")
                   => state'.progress = state.progress
      ]_vars

\* the flag is false after the commit of the current navigation, with a
\* dropped navigation behind it
ProgressFlagWitness ==
    \E a \in Handles :
        /\ navs[a].pc = "discarded"
        /\ currentHandle > a
        /\ navs[currentHandle].pc = "committed"
        /\ ~state.progress

\* every step of every route the pipeline went through has been started,
\* level by level in the order of the lists
RanAll(n) ==
    /\ \A i \in 1..Len(n.execs) :
          \A j \in 1..Len(RouteAt(LevelRoute(n, i)).steps) :
              \E k \in 1..Len(n.ran) :
                  n.ran[k] = [route |-> LevelRoute(n, i), idx |-> j]
    /\ \A k \in 2..Len(n.ran) :
          n.ran[k].route = n.ran[k - 1].route
              => n.ran[k].idx = n.ran[k - 1].idx + 1

\* C18: no hard abort.  A navigation that is no longer the current one
\* keeps running: while its pipeline has steps left, the start or the
\* completion of its next step is possible, and when its pipeline ends
\* without a failed step every step of its route has run in order.
NoHardAbort ==
    \A h \in Handles :
        LET n == navs[h]
        IN  (~n.direct /\ h # currentHandle /\ n.pc # "idle")
                => /\ n.pc = "exec"
                       => ENABLED ( \/ \E o \in {"sync", "throw", "async"} :
                                         StepStart(h, o)
                                    \/ \E ok \in BOOLEAN : StepComplete(h, ok) )
                   /\ (n.pc # "exec" /\ n.failedAt = 0 /\ n.bag.route # NoRoute)
                       => RanAll(n)

\* a navigation that was superseded ran its steps, called the hook and
\* was dropped at the check
NoHardAbortWitness ==
    \E h \in Handles :
        /\ ~navs[h].direct
        /\ h < currentHandle
        /\ navs[h].pc = "discarded"
        /\ navs[h].failedAt = 0
        /\ Len(navs[h].ran) >= 1
        /\ RanAll(navs[h])
        /\ state.path # navs[h].path

\* every navigation accepted so far has finished, no step failed and no
\* hook failed (the hook returned nothing or a promise that fulfilled),
\* the one accepted last found its route,
\* and no change of the marker is waiting to be handled
AllSettled ==
    /\ currentHandle # 0
    /\ navs[currentHandle].bag.error = NoError
    /\ events = <<>>
    /\ \A h \in Handles :
          navs[h].pc # "idle"
              => /\ ~navs[h].direct
                 /\ navs[h].pc \in {"committed", "discarded", "rejected"}
                 /\ navs[h].failedAt = 0
                 /\ navs[h].hook \in {"none", "resolve"}

\* C19: last accepted navigation wins.  Once every accepted navigation
\* has finished, all steps and hooks having completed successfully,
\* state.path is the path of the navigation accepted last and
\* state.progress is false; so is the marker, when the listener that turns
\* changes of the marker from outside into navigate calls is installed.
LastAcceptedWins ==
    AllSettled
        => /\ state.path = HandlePath(currentHandle)
           /\ ~state.progress
           /\ installed => hash = <<"#">> \o HandlePath(currentHandle)

----------------------------------------------------------------------------
(* Backtracking (specification SpecExec) *)

\* the routers whose synthetic route is ref
ChildrenOf(ref) == {c \in 1..Len(Routers) : Routers[c].baseRoute = ref}

FirstAccepting(r, path) ==
    LET rs == {j \in 1..Len(Routers[r].routes) :
                  Accepts([router |-> r, idx |-> j], path)}
    IN  IF rs = {} THEN 0 ELSE CHOOSE j \in rs : \A j2 \in rs : j <= j2

\* where a path ends when every router takes its first accepting route and
\* a synthetic route hands the rest of the path to its child
RECURSIVE Outcome(_, _)
Outcome(r, path) ==
    LET j   == FirstAccepting(r, path)
        ref == [router |-> r, idx |-> j]
    IN  IF j = 0 THEN [router |-> r, route |-> NoRoute]
        ELSE IF ChildrenOf(ref) = {} THEN [router |-> r, route |-> ref]
        ELSE LET c == CHOOSE c2 \in ChildrenOf(ref) : TRUE
             IN  Outcome(c, AfterPrefix(c, path))

\* C20: no backtracking after delegation.  When the first accepting route
\* of the root is a synthetic route, none of its steps fails and the path
\* finds no route below it, the result is not-found in the router where the search ended, and the
\* only steps that ran are steps of synthetic routes: no other route of a
\* parent is tried, whether or not one accepts the path.
NoBacktracking ==
    \A h \in Handles :
        LET n   == navs[h]
            end == Outcome(RootRouter, n.path)
        IN  ( /\ n.pc = "resolved"
              /\ n.failedAt = 0
              /\ end.route = NoRoute
              /\ end.router # RootRouter )
                => /\ n.bag.error = "NotFound"
                   /\ n.bag.route = NoRoute
                   /\ n.bag.router = end.router
                   /\ \A i \in 1..Len(n.ran) : ChildrenOf(n.ran[i].route) # {}
                   /\ \A i, j \in 1..Len(n.execs) :
                         i < j => n.execs[i].router # n.execs[j].router

\* the child found nothing for a path that a later route of the root
\* accepts in full
NoBacktrackingWitness ==
    \E h \in Handles :
        /\ navs[h].pc = "resolved"
        /\ Outcome(RootRouter, navs[h].path) = [router |-> 2, route |-> NoRoute]
        /\ Accepts([router |-> RootRouter, idx |-> 3], navs[h].path)
        /\ FirstAccepting(RootRouter, navs[h].path) = 2
        /\ navs[h].bag.error = "NotFound"

====
